---- MODULE Spec2Model ----
(***************************************************************************)
(* A model of log4j_finder.py: RemovableZipfile (remove, _remove_member)   *)
(* working on a zipfile.ZipFile object, and the generator find_log4j.      *)
(*                                                                         *)
(* An archive file is a sequence of cells.  A cell [b |-> n] is one byte   *)
(* of an entry's raw data (local header + payload) or of a preamble; a     *)
(* cell [filename, header_offset] is one central-directory record and a    *)
(* cell [cd_offset, count] is the end-of-central-directory record.  File   *)
(* offsets are 0-based as in Python: the byte at offset o is cell o + 1.   *)
(* What the program computes from a string (lower(), endswith(), the       *)
(* substring test `in`) is computed from the string's characters.          *)
(***************************************************************************)
EXTENDS Integers, Sequences, FiniteSets, TLC

VARIABLES
    fs,      \* the file system: path -> sequence of cells of that file
    zf,      \* the zipfile.ZipFile object the RemovableZipfile wraps
    heap,    \* the ZipInfo objects: object id -> [filename, header_offset]
    exc,     \* how the call of remove() of the latest step ended
    io,      \* the fp.read / fp.write calls that call of remove() made
    orig,    \* history: [zf, heap, data] as they were when the archive was
             \* first opened
    hist,    \* history: the objects of orig removed successfully since then
    last,    \* history: that call of remove(): the object it was given (or
             \* the one its name stands for), the state before it
    walk,    \* find_log4j on a directory: the files os.walk still has to give
    run,     \* find_log4j on a single file: its arguments and position
    out,     \* the findings find_log4j has yielded, in order
    log,     \* what the call printed and asked: warnings, prompts with their
             \* answers, removals
    cfg,     \* the call: path, flags, the module's keywords list, and what
             \* os.walk gives for the path
    seen     \* history: the findings of the earlier calls with these arguments

vars == <<fs, zf, heap, exc, io, orig, hist, last, walk, run, out, log, cfg, seen>>

-----------------------------------------------------------------------------
(* Bounds of the model *)

MaxEntries == 3      \* entries of an archive
MaxSize == 5         \* cells of an archive before its central directory
MaxCalls == 2        \* calls of find_log4j with the same arguments

-----------------------------------------------------------------------------
(* Strings *)

\* The strings of the model, and how each is spelled.  The state holds the
\* strings; what the program computes from a string is computed from its
\* characters.
Chars ==
    [s \in {"a.txt", "b.txt", "c.txt", "JndiLookup.class", "x/jndilookup.class",
            "y/JNDILOOKUP", "d", "a.jar", "B.JAR", "bad.jar", "cut.jar", "n.txt",
            "jndilookup.txt", "jndilookup", "jndi", "lookup", ".jar",
            "y", "Y ", "n", ""} |->
      CASE s = "a.txt" -> <<"a", ".", "t", "x", "t">>
        [] s = "b.txt" -> <<"b", ".", "t", "x", "t">>
        [] s = "c.txt" -> <<"c", ".", "t", "x", "t">>
        [] s = "JndiLookup.class" ->
             <<"J","n","d","i","L","o","o","k","u","p",".","c","l","a","s","s">>
        [] s = "x/jndilookup.class" ->
             <<"x","/","j","n","d","i","l","o","o","k","u","p",".","c","l","a","s","s">>
        [] s = "y/JNDILOOKUP" ->
             <<"y","/","J","N","D","I","L","O","O","K","U","P">>
        [] s = "a.jar" -> <<"a", ".", "j", "a", "r">>
        [] s = "B.JAR" -> <<"B", ".", "J", "A", "R">>
        [] s = "n.txt" -> <<"n", ".", "t", "x", "t">>
        [] s = "jndilookup.txt" ->
             <<"j","n","d","i","l","o","o","k","u","p",".","t","x","t">>
        [] s = "d" -> <<"d">>
        [] s = "bad.jar" -> <<"b", "a", "d", ".", "j", "a", "r">>
        [] s = "cut.jar" -> <<"c", "u", "t", ".", "j", "a", "r">>
        [] s = "y" -> <<"y">>
        [] s = "Y " -> <<"Y", " ">>
        [] s = "n" -> <<"n">>
        [] s = "jndilookup" -> <<"j","n","d","i","l","o","o","k","u","p">>
        [] s = "jndi" -> <<"j","n","d","i">>
        [] s = "lookup" -> <<"l","o","o","k","u","p">>
        [] s = ".jar" -> <<".", "j", "a", "r">>
        [] s = "" -> <<>>]

Upper == <<"A","B","C","D","E","F","G","H","I","J","K","L","M",
           "N","O","P","Q","R","S","T","U","V","W","X","Y","Z">>
LowerOf == <<"a","b","c","d","e","f","g","h","i","j","k","l","m",
             "n","o","p","q","r","s","t","u","v","w","x","y","z">>

\* str.lower() on one character
LowerChar(c) ==
    IF \E i \in 1..Len(Upper) : Upper[i] = c
    THEN LowerOf[CHOOSE i \in 1..Len(Upper) : Upper[i] = c]
    ELSE c

\* str.lower() on a character sequence
LowerSeq(cs) == [i \in 1..Len(cs) |-> LowerChar(cs[i])]

\* the characters of s.lower()
Lower(s) == LowerSeq(Chars[s])

\* str.strip() on a character sequence
RECURSIVE Strip(_)
Strip(cs) ==
    IF cs = <<>> THEN cs
    ELSE IF Head(cs) = " " THEN Strip(Tail(cs))
    ELSE IF cs[Len(cs)] = " " THEN Strip(SubSeq(cs, 1, Len(cs) - 1))
    ELSE cs

\* A path is the sequence of its components; its characters are those of
\* the components joined with "/" (os.path.join)
RECURSIVE PathChars(_)
PathChars(p) ==
    IF Len(p) = 1 THEN Chars[p[1]]
    ELSE Chars[p[1]] \o <<"/">> \o PathChars(Tail(p))

\* kw occurs in the character sequence cs as a contiguous substring
Occurs(kw, cs) ==
    \E i \in 0..(Len(cs) - Len(kw)) : SubSeq(cs, i + 1, i + Len(kw)) = kw

\* `kw in s`
In(kw, s) == Occurs(Chars[kw], Chars[s])

\* `kw in s.lower()`
InLower(kw, s) == Occurs(Chars[kw], Lower(s))

\* the character sequence cs ends with the characters of suf
EndsWithChars(cs, suf) ==
    /\ Len(cs) >= Len(Chars[suf])
    /\ SubSeq(cs, Len(cs) - Len(Chars[suf]) + 1, Len(cs)) = Chars[suf]

\* line 6: keywords = [x.lower() for x in ['JndiLookup']]
keywords == <<"jndilookup">>

-----------------------------------------------------------------------------
(* Files *)

Max(a, b) == IF a >= b THEN a ELSE b
Min(a, b) == IF a <= b THEN a ELSE b

ZeroCell == [b |-> 0]

\* fp.seek(off); fp.read(n): up to n cells from offset off, fewer at the end
\* of the file; a negative n reads to the end of the file
ReadAt(data, off, n) ==
    LET end == IF n < 0 THEN Len(data) ELSE Min(Len(data), off + n)
    IN  IF off >= end THEN <<>> ELSE SubSeq(data, off + 1, end)

\* fp.seek(off); fp.write(bytes): overwrites in place and extends the file
\* (a seek past the end leaves a hole of zero bytes)
WriteAt(data, off, bytes) ==
    LET padded == IF off > Len(data)
                  THEN data \o [i \in 1..(off - Len(data)) |-> ZeroCell]
                  ELSE data
    IN  SubSeq(padded, 1, off) \o bytes
        \o SubSeq(padded, off + Len(bytes) + 1, Len(padded))

IsEndRec(c) == DOMAIN c = {"cd_offset", "count"}

IsDirRec(c) == DOMAIN c = {"filename", "header_offset"}

\* zipfile.is_zipfile(path): the end-of-central-directory record is found
is_zipfile(data) == Len(data) > 0 /\ IsEndRec(data[Len(data)])

\* ZipFile(path, mode) reads the central directory the end record points to:
\* it raises BadZipFile unless a directory record follows a directory record
\* from there up to the end record
DirParses(data) ==
    LET cd == data[Len(data)].cd_offset
    IN  /\ cd >= 0 /\ cd < Len(data)
        /\ \A i \in (cd + 1)..(Len(data) - 1) : IsDirRec(data[i])

\* The central directory ZipFile.close() writes from filelist at start_dir
DirCells(filelist, hp, start_dir) ==
    [i \in 1..Len(filelist) |->
        [filename |-> hp[filelist[i]].filename,
         header_offset |-> hp[filelist[i]].header_offset]]
    \o <<[cd_offset |-> start_dir, count |-> Len(filelist)]>>

-----------------------------------------------------------------------------
(* RemovableZipfile *)

\* sorted(filelist, key=attrgetter('header_offset')): a stable sort of the
\* object ids by the header_offset their objects hold
RECURSIVE InsertSorted(_, _, _)
InsertSorted(srt, id, hp) ==
    IF srt = <<>> THEN <<id>>
    ELSE IF hp[id].header_offset < hp[Head(srt)].header_offset
         THEN <<id>> \o srt
         ELSE <<Head(srt)>> \o InsertSorted(Tail(srt), id, hp)

RECURSIVE SortByOffset(_, _)
SortByOffset(filelist, hp) ==
    IF filelist = <<>> THEN <<>>
    ELSE InsertSorted(SortByOffset(SubSeq(filelist, 1, Len(filelist) - 1), hp),
                      filelist[Len(filelist)], hp)

\* A variant of line 42 that trusts the directory order
SortedFilelist_DirOrder(filelist, hp) == filelist

\* line 42
SortedFilelist(filelist, hp) == SortByOffset(filelist, hp)

\* lines 50-54: the total size of the entry at position i of the sorted list
EntrySize(srt, i, hp, start_dir) ==
    IF i = Len(srt)
    THEN start_dir - hp[srt[i]].header_offset
    ELSE hp[srt[i + 1]].header_offset - hp[srt[i]].header_offset

\* A variant of lines 63-72 that moves the bytes and forgets line 67
MoveEntry_StaleOffset(st, info, entry_size) ==
    LET off == st.heap[info].header_offset
        entry_data == ReadAt(st.data, off, entry_size)
        newoff == off - st.entry_offset
    IN  [st EXCEPT
            !.data = WriteAt(st.data, newoff, entry_data),
            !.pos = newoff + Len(entry_data),
            !.io = st.io \o <<[op |-> "read", at |-> off, n |-> Len(entry_data),
                               info |-> info],
                              [op |-> "write", at |-> newoff, n |-> Len(entry_data),
                               info |-> info]>>]

\* A variant of lines 63-72 that lowers header_offset first (line 67) and
\* then seeks to it and reads
MoveEntry_ReadsShifted(st, info, entry_size) ==
    LET newoff == st.heap[info].header_offset - st.entry_offset
        entry_data == ReadAt(st.data, newoff, entry_size)
    IN  [st EXCEPT
            !.heap = [st.heap EXCEPT ![info].header_offset = newoff],
            !.data = WriteAt(st.data, newoff, entry_data),
            !.pos = newoff + Len(entry_data),
            !.io = st.io \o <<[op |-> "read", at |-> newoff, n |-> Len(entry_data),
                               info |-> info],
                              [op |-> "write", at |-> newoff, n |-> Len(entry_data),
                               info |-> info]>>]

\* lines 63-72: read the entry at its offset, lower its header_offset by
\* entry_offset, write it at the new offset
MoveEntry(st, info, entry_size) ==
    LET off == st.heap[info].header_offset
        entry_data == ReadAt(st.data, off, entry_size)
        newoff == off - st.entry_offset
    IN  [st EXCEPT
            !.heap = [st.heap EXCEPT ![info].header_offset = newoff],
            !.data = WriteAt(st.data, newoff, entry_data),
            !.pos = newoff + Len(entry_data),
            !.io = st.io \o <<[op |-> "read", at |-> off, n |-> Len(entry_data),
                               info |-> info],
                              [op |-> "write", at |-> newoff, n |-> Len(entry_data),
                               info |-> info]>>]

\* A variant of lines 43-72 without the test of lines 46-47: the entries
\* before the member are read and written as well
RECURSIVE RemoveLoop_NoSkip(_, _, _, _, _)
RemoveLoop_NoSkip(i, srt, st, member, start_dir) ==
    IF i > Len(srt) THEN st
    ELSE
      LET info == srt[i]
          entry_size == EntrySize(srt, i, st.heap, start_dir)
      IN  IF member = info
          THEN RemoveLoop_NoSkip(i + 1, srt, [st EXCEPT !.entry_offset = entry_size],
                                 member, start_dir)
          ELSE RemoveLoop_NoSkip(i + 1, srt, MoveEntry(st, info, entry_size),
                                 member, start_dir)

\* lines 43-72: the loop over the sorted list, from position i on
RECURSIVE RemoveLoop(_, _, _, _, _)
RemoveLoop(i, srt, st, member, start_dir) ==
    IF i > Len(srt) THEN st
    ELSE
      LET info == srt[i] IN
      IF st.heap[info].header_offset < st.heap[member].header_offset
      THEN RemoveLoop(i + 1, srt, st, member, start_dir)
      ELSE
        LET entry_size == EntrySize(srt, i, st.heap, start_dir) IN
        IF member = info
        THEN RemoveLoop(i + 1, srt, [st EXCEPT !.entry_offset = entry_size],
                        member, start_dir)
        ELSE RemoveLoop(i + 1, srt, MoveEntry(st, info, entry_size),
                        member, start_dir)

\* list.remove(x): drops the first occurrence
RECURSIVE ListRemove(_, _)
ListRemove(lst, x) ==
    IF lst = <<>> THEN <<>>
    ELSE IF Head(lst) = x THEN Tail(lst)
    ELSE <<Head(lst)>> \o ListRemove(Tail(lst), x)

InList(lst, x) == \E i \in 1..Len(lst) : lst[i] = x

\* A variant of lines 74-81 that marks the archive modified first
UpdateState_DirtyFirst(w, st, member) ==
    LET start_dir == w.zf.start_dir - st.entry_offset
        z1 == [w.zf EXCEPT !.start_dir = start_dir, !.pos = st.pos,
                           !.didModify = TRUE]
        r1 == [zf |-> z1, heap |-> st.heap, data |-> st.data, io |-> st.io,
               entry_offset |-> st.entry_offset]
        fname == st.heap[member].filename
    IN  IF ~InList(w.zf.filelist, member)
        THEN r1 @@ [exc |-> "ValueError: x not in list"]
        ELSE [r1 EXCEPT !.zf =
                 [z1 EXCEPT
                    !.filelist = ListRemove(w.zf.filelist, member),
                    !.NameToInfo = [n \in (DOMAIN w.zf.NameToInfo) \ {fname}
                                      |-> w.zf.NameToInfo[n]],
                    !.pos = start_dir]]
             @@ [exc |-> "none"]

\* A variant of lines 74-81 that forgets line 75
UpdateState_KeepsStartDir(w, st, member) ==
    LET z1 == [w.zf EXCEPT !.pos = st.pos]
        r1 == [zf |-> z1, heap |-> st.heap, data |-> st.data, io |-> st.io,
               entry_offset |-> st.entry_offset]
        fname == st.heap[member].filename
    IN  IF ~InList(w.zf.filelist, member)
        THEN r1 @@ [exc |-> "ValueError: x not in list"]
        ELSE [r1 EXCEPT !.zf =
                 [z1 EXCEPT
                    !.filelist = ListRemove(w.zf.filelist, member),
                    !.NameToInfo = [n \in (DOMAIN w.zf.NameToInfo) \ {fname}
                                      |-> w.zf.NameToInfo[n]],
                    !.didModify = TRUE,
                    !.pos = w.zf.start_dir]]
             @@ [exc |-> "none"]

\* A variant of lines 74-81 that forgets line 78
UpdateState_NotDirty(w, st, member) ==
    LET start_dir == w.zf.start_dir - st.entry_offset
        z1 == [w.zf EXCEPT !.start_dir = start_dir, !.pos = st.pos]
        r1 == [zf |-> z1, heap |-> st.heap, data |-> st.data, io |-> st.io,
               entry_offset |-> st.entry_offset]
        fname == st.heap[member].filename
    IN  IF ~InList(w.zf.filelist, member)
        THEN r1 @@ [exc |-> "ValueError: x not in list"]
        ELSE LET z2 == [z1 EXCEPT !.filelist = ListRemove(w.zf.filelist, member)]
             IN  IF fname \notin DOMAIN w.zf.NameToInfo
                 THEN [r1 EXCEPT !.zf = z2] @@ [exc |-> "KeyError"]
                 ELSE [r1 EXCEPT !.zf =
                          [z2 EXCEPT
                             !.NameToInfo = [n \in (DOMAIN w.zf.NameToInfo) \ {fname}
                                               |-> w.zf.NameToInfo[n]],
                             !.pos = start_dir]]
                      @@ [exc |-> "none"]

\* A variant of lines 74-81 that forgets line 77
UpdateState_KeepsName(w, st, member) ==
    LET start_dir == w.zf.start_dir - st.entry_offset
        z1 == [w.zf EXCEPT !.start_dir = start_dir, !.pos = st.pos]
        r1 == [zf |-> z1, heap |-> st.heap, data |-> st.data, io |-> st.io,
               entry_offset |-> st.entry_offset]
    IN  IF ~InList(w.zf.filelist, member)
        THEN r1 @@ [exc |-> "ValueError: x not in list"]
        ELSE [r1 EXCEPT !.zf =
                 [z1 EXCEPT
                    !.filelist = ListRemove(w.zf.filelist, member),
                    !.didModify = TRUE,
                    !.pos = start_dir]]
             @@ [exc |-> "none"]

\* lines 74-81: update state; each statement can raise and leave the rest undone
UpdateState(w, st, member) ==
    LET start_dir == w.zf.start_dir - st.entry_offset
        z1 == [w.zf EXCEPT !.start_dir = start_dir, !.pos = st.pos]
        r1 == [zf |-> z1, heap |-> st.heap, data |-> st.data, io |-> st.io,
               entry_offset |-> st.entry_offset]
        fname == st.heap[member].filename
    IN  IF ~InList(w.zf.filelist, member)
        THEN r1 @@ [exc |-> "ValueError: x not in list"]
        ELSE LET z2 == [z1 EXCEPT !.filelist = ListRemove(w.zf.filelist, member)]
             IN  IF fname \notin DOMAIN w.zf.NameToInfo
                 THEN [r1 EXCEPT !.zf = z2] @@ [exc |-> "KeyError"]
                 ELSE [r1 EXCEPT !.zf =
                          [z2 EXCEPT
                             !.NameToInfo = [n \in (DOMAIN w.zf.NameToInfo) \ {fname}
                                               |-> w.zf.NameToInfo[n]],
                             !.didModify = TRUE,
                             !.pos = start_dir]]
                      @@ [exc |-> "none"]

\* lines 37-81: w is [zf, heap, data]; the result adds exc, io, entry_offset
_remove_member(w, member) ==
    LET srt == SortedFilelist(w.zf.filelist, w.heap)
        st0 == [heap |-> w.heap, data |-> w.data, entry_offset |-> 0,
                pos |-> w.zf.pos, io |-> <<>>]
        st == RemoveLoop(1, srt, st0, member, w.zf.start_dir)
    IN  UpdateState(w, st, member)

Raise(w, e) == w @@ [exc |-> e, io |-> <<>>, entry_offset |-> 0]

\* A variant of lines 17-25 without the check of an open writing handle
StateCheck_NoHandleCheck(z) ==
    IF z.mode # "a" THEN "RuntimeError: remove() requires mode 'a'"
    ELSE IF ~z.fp THEN "ValueError: already closed"
    ELSE "none"

\* lines 17-25: the checks of remove(), in the order the code makes them
StateCheck(z) ==
    IF z.mode # "a" THEN "RuntimeError: remove() requires mode 'a'"
    ELSE IF ~z.fp THEN "ValueError: already closed"
    ELSE IF z.writing THEN "ValueError: open writing handle"
    ELSE "none"

\* lines 14-35: target is [name |-> filename] or [info |-> object id]
remove(w, target) ==
    IF StateCheck(w.zf) # "none" THEN Raise(w, StateCheck(w.zf))
    ELSE IF "info" \in DOMAIN target
         THEN _remove_member(w, target.info)
         ELSE IF target.name \in DOMAIN w.zf.NameToInfo     \* ZipFile.getinfo
              THEN _remove_member(w, w.zf.NameToInfo[target.name])
              ELSE Raise(w, "KeyError")

-----------------------------------------------------------------------------
(* zipfile.ZipFile: open and close, as far as the program relies on them *)

\* ZipFile(path, mode) for mode 'r' or 'a': the end record gives the start of
\* the central directory, each directory record becomes a new ZipInfo object
\* (ids 1..count, in directory order); object 0, a ZipInfo of another
\* archive, stays on the heap
DirRecords(data) ==
    LET cd == data[Len(data)].cd_offset
    IN  SubSeq(data, cd + 1, Len(data) - 1)

ZipFileOpen(path, data, mode, hp) ==
    LET recs == DirRecords(data)
        start_dir == data[Len(data)].cd_offset
        names == {recs[i].filename : i \in 1..Len(recs)}
    IN  [zf |-> [mode |-> mode, fp |-> TRUE, writing |-> FALSE,
                 filelist |-> [i \in 1..Len(recs) |-> i],
                 NameToInfo |-> [n \in names |->
                     CHOOSE i \in 1..Len(recs) :
                        /\ recs[i].filename = n
                        /\ \A j \in 1..Len(recs) : recs[j].filename = n => j <= i],
                 start_dir |-> start_dir, didModify |-> FALSE,
                 pos |-> IF mode = "a" THEN start_dir ELSE Len(data) - 1,
                 path |-> path],
         heap |-> [i \in {0} \cup (1..Len(recs)) |->
                     IF i = 0 THEN hp[0]
                     ELSE [filename |-> recs[i].filename,
                           header_offset |-> recs[i].header_offset]],
         data |-> data]

\* ZipFile.close(): in mode 'a', when the archive was modified, the central
\* directory is written from filelist at start_dir and the file is truncated
\* after it; fp becomes None
ZipFileClose(w) ==
    LET cells == DirCells(w.zf.filelist, w.heap, w.zf.start_dir)
        written == WriteAt(w.data, w.zf.start_dir, cells)
    IN  [zf |-> [w.zf EXCEPT !.fp = FALSE],
         heap |-> w.heap,
         data |-> IF w.zf.mode = "a" /\ w.zf.didModify
                  THEN SubSeq(written, 1, w.zf.start_dir + Len(cells))
                  ELSE w.data]

-----------------------------------------------------------------------------
(* Archives *)

NamePool == <<"a.txt", "JndiLookup.class", "b.txt", "x/jndilookup.class", "c.txt",
             "y/JNDILOOKUP">>

\* byte j of the raw data of the entry that is k-th in offset order
Cell(k, j) == [b |-> 1000 * k + j]

RECURSIVE SumTo(_, _)
SumTo(sizes, k) == IF k = 0 THEN 0 ELSE sizes[k] + SumTo(sizes, k - 1)

\* An archive file: base bytes of preamble, then the entries one after the
\* other (entry k has sizes[k] cells and the name names[k]), then the central
\* directory, which lists the entries in the order dirorder
Archive(base, sizes, names, dirorder) ==
    LET n == Len(sizes)
        off(k) == base + SumTo(sizes, k - 1)
        entry(k) == [j \in 1..sizes[k] |-> Cell(k, j)]
        body[k \in 0..n] == IF k = 0 THEN [j \in 1..base |-> [b |-> -j]]
                            ELSE body[k - 1] \o entry(k)
    IN  body[n]
        \o [i \in 1..n |-> [filename |-> names[dirorder[i]],
                            header_offset |-> off(dirorder[i])]]
        \o <<[cd_offset |-> base + SumTo(sizes, n), count |-> n]>>

Perms(n) == {p \in [1..n -> 1..n] : \A i, j \in 1..n : p[i] = p[j] => i = j}

JarPath == <<"a.jar">>

ForeignInfo == [filename |-> "a.txt", header_offset |-> 0]

Bundle == [zf |-> zf, heap |-> heap, data |-> fs[zf.path]]

NoObject == -1

NoCall == [called |-> FALSE]

\* The part of the state find_log4j uses, at rest
ScanIdle ==
    /\ walk = <<>>
    /\ run = [pc |-> "idle"]
    /\ out = <<>>
    /\ log = <<>>
    /\ cfg = [path |-> JarPath, ignore_case |-> FALSE, scan_only |-> TRUE,
              confirm_before_removing |-> TRUE, keywords |-> keywords,
              listing |-> <<>>]
    /\ seen = <<>>

Opened(path, data, mode, foreign) ==
    LET o == ZipFileOpen(path, data, mode, [i \in {0} |-> foreign])
    IN  /\ fs = [p \in {path} |-> data]
        /\ zf = o.zf
        /\ heap = o.heap
        /\ orig = o
        /\ hist = <<>>
        /\ exc = "none"
        /\ io = <<>>
        /\ last = NoCall

\* A ZipFile open on an archive of up to MaxEntries entries
Init ==
    /\ \E n \in 1..MaxEntries, base \in 0..MaxSize :
         \E sizes \in [1..n -> 1..MaxSize], dirorder \in Perms(n) :
            /\ base + SumTo(sizes, n) <= MaxSize
            /\ Opened(JarPath, Archive(base, sizes, NamePool, dirorder), "a",
                      ForeignInfo)
    /\ ScanIdle

ScanUnchanged == UNCHANGED <<walk, run, out, log, cfg, seen>>

Targets ==
    {[name |-> NamePool[k]] : k \in 1..(MaxEntries + 1)}
    \cup {[info |-> id] : id \in DOMAIN heap}

TargetInfo(w, target) ==
    IF "info" \in DOMAIN target THEN target.info
    ELSE IF target.name \in DOMAIN w.zf.NameToInfo
         THEN w.zf.NameToInfo[target.name] ELSE NoObject

\* rz.remove(target), whatever state the ZipFile is in
Remove(target) ==
    \E r \in {remove(Bundle, target)} :
    /\ zf' = r.zf
    /\ heap' = r.heap
    /\ fs' = [fs EXCEPT ![zf.path] = r.data]
    /\ exc' = r.exc
    /\ io' = r.io
    /\ hist' = IF r.exc = "none" THEN Append(hist, TargetInfo(Bundle, target)) ELSE hist
    /\ last' = [called |-> TRUE, member |-> TargetInfo(Bundle, target),
                pre |-> Bundle, entry_offset |-> r.entry_offset]
    /\ UNCHANGED orig
    /\ ScanUnchanged

\* zf.close()
Close ==
    /\ zf.fp /\ ~zf.writing
    /\ \E c \in {ZipFileClose(Bundle)} :
         /\ zf' = c.zf
         /\ fs' = [fs EXCEPT ![zf.path] = c.data]
    /\ exc' = "none"
    /\ io' = <<>>
    /\ last' = NoCall
    /\ UNCHANGED <<heap, orig, hist>>
    /\ ScanUnchanged

\* zipfile.ZipFile(path, 'r') on the file a closed ZipFile left: the archive
\* is parsed from scratch
Reopen ==
    /\ ~zf.fp
    /\ \E o \in {ZipFileOpen(zf.path, fs[zf.path], "r", heap)} :
         /\ zf' = o.zf
         /\ heap' = o.heap
    /\ exc' = "none"
    /\ io' = <<>>
    /\ last' = NoCall
    /\ UNCHANGED <<fs, orig, hist>>
    /\ ScanUnchanged

\* zf.open(name, 'w'): a writing handle is open on the archive
BeginWrite ==
    /\ zf.fp /\ zf.mode = "a" /\ ~zf.writing
    /\ zf' = [zf EXCEPT !.writing = TRUE]
    /\ exc' = "none"
    /\ io' = <<>>
    /\ last' = NoCall
    /\ UNCHANGED <<fs, heap, orig, hist>>
    /\ ScanUnchanged

Next ==
    \/ \E target \in Targets : Remove(target)
    \/ Close
    \/ Reopen
    \/ BeginWrite

Spec == Init /\ [][Next]_vars

-----------------------------------------------------------------------------
(* What the claims speak of *)

Live(w) == {w.zf.filelist[i] : i \in 1..Len(w.zf.filelist)}

NamesOf(w) == {w.heap[id].filename : id \in Live(w)}

\* The end of an entry's raw data: the header offset of the next entry in
\* offset order, or the start of the central directory for the last one
EndOf(w, id) ==
    LET later == {w.heap[j].header_offset : j \in
                    {k \in Live(w) : w.heap[k].header_offset > w.heap[id].header_offset}}
    IN  IF later = {} THEN w.zf.start_dir
        ELSE CHOOSE o \in later : \A o2 \in later : o <= o2

\* rawSize: the bytes an entry occupies (local header + payload)
RawSize(w, id) == EndOf(w, id) - w.heap[id].header_offset

\* The raw bytes of an entry
RawBytes(w, id) == SubSeq(w.data, w.heap[id].header_offset + 1, EndOf(w, id))

\* The entry of w with the given name
EntryNamed(w, name) == CHOOSE id \in Live(w) : w.heap[id].filename = name

\* The names of the entries removed since the archive was first opened
RemovedNames == {orig.heap[hist[i]].filename : i \in 1..Len(hist)}

\* The first entry's header offset when the archive was first opened
OrigBase ==
    CHOOSE o \in {orig.heap[id].header_offset : id \in Live(orig)} :
        \A id \in Live(orig) : o <= orig.heap[id].header_offset

\* The directory order of orig differs from its offset order
Shuffled ==
    \E i, j \in 1..Len(orig.zf.filelist) :
        /\ i < j
        /\ orig.heap[orig.zf.filelist[i]].header_offset
             > orig.heap[orig.zf.filelist[j]].header_offset

\* The call of remove() of the latest step returned normally
Removed == last.called /\ exc = "none"

Reparsed == zf.fp /\ zf.mode = "r"

\* C1: after removals, a close and a re-open, the archive parsed from scratch
\* has exactly the original entries minus the removed ones, by name, and the
\* raw bytes (header + payload) of each remaining entry are what they were
\* before the removals.
C1_RoundTrip ==
    Reparsed =>
        /\ Len(zf.filelist) = Len(orig.zf.filelist) - Len(hist)
        /\ NamesOf(Bundle) = NamesOf(orig) \ RemovedNames
        /\ \A id \in Live(Bundle) :
              /\ heap[id].filename \in NamesOf(orig)
              /\ RawBytes(Bundle, id)
                   = RawBytes(orig, EntryNamed(orig, heap[id].filename))

\* C1 witness: one entry of a three-entry archive whose directory order is
\* not its offset order was removed, an entry behind it was moved, and the
\* archive was closed and parsed again.
C1_Witness ==
    /\ Reparsed
    /\ Len(hist) = 1
    /\ Len(orig.zf.filelist) = 3
    /\ Shuffled
    /\ \E id \in Live(Bundle) :
          heap[id].header_offset
            < orig.heap[EntryNamed(orig, heap[id].filename)].header_offset

\* C4: after any sequence of successful removals every remaining entry ends,
\* by its size before the removals, where the next entry in offset order
\* begins, and the last one ends at dirStart.
C4_Contiguity ==
    (zf.mode = "a" /\ hist # <<>>) =>
        \A id \in Live(Bundle) :
            heap[id].header_offset + RawSize(orig, id)
                = EndOf(Bundle, id)

\* C4 witness: after a removal that moved entries, two entries remain.
C4_Witness ==
    /\ zf.mode = "a" /\ Removed /\ io # <<>>
    /\ Len(zf.filelist) >= 2

MutableOpen(z) == z.mode = "a" /\ z.fp /\ ~z.writing

\* The container as the claims see it: the entry list, the header offsets of
\* its entries, dirStart and the bytes below dirStart
View(w) ==
    [filelist |-> w.zf.filelist,
     offsets |-> [id \in Live(w) |-> w.heap[id].header_offset],
     start_dir |-> w.zf.start_dir,
     bytes |-> SubSeq(w.data, 1, w.zf.start_dir)]

\* remove() of the objects of the sequence ids, one after the other
RECURSIVE Replay(_, _)
Replay(w, ids) ==
    IF ids = <<>> THEN w
    ELSE LET r == remove(w, [info |-> Head(ids)])
         IN  Replay([zf |-> r.zf, heap |-> r.heap, data |-> r.data], Tail(ids))

\* hist with its last two objects in the other order
SwappedHist ==
    SubSeq(hist, 1, Len(hist) - 2) \o <<hist[Len(hist)], hist[Len(hist) - 1]>>

\* C5: removing two entries A and B in either order ends in the same state:
\* the same entry list, header offsets, dirStart and bytes below dirStart.
C5_OrderIndependent ==
    (MutableOpen(zf) /\ Len(hist) >= 2) =>
        View(Bundle) = View(Replay(orig, SwappedHist))

\* C5 witness: two entries of a three-entry archive were removed, the first
\* of them lying behind the second.
C5_Witness ==
    /\ MutableOpen(zf) /\ Len(hist) = 2 /\ Len(orig.zf.filelist) = 3
    /\ orig.heap[hist[1]].header_offset > orig.heap[hist[2]].header_offset
    /\ Len(zf.filelist) = 1

\* C7: removing the single remaining entry leaves no entry and no name, puts
\* dirStart where the entry began (the offset of the archive's first entry),
\* shifts by the entry's raw size and moves no entry.
C7_LastEntry ==
    (Removed /\ Len(last.pre.zf.filelist) = 1) =>
        /\ zf.filelist = <<>>
        /\ DOMAIN zf.NameToInfo = {}
        /\ zf.start_dir = last.pre.heap[last.member].header_offset
        /\ zf.start_dir = OrigBase
        /\ last.entry_offset = RawSize(last.pre, last.member)
        /\ io = <<>>
        /\ \A id \in DOMAIN heap : heap[id] = last.pre.heap[id]

\* C7 witness: the only entry left of an archive with a preamble was removed.
C7_Witness ==
    /\ Removed /\ Len(last.pre.zf.filelist) = 1
    /\ OrigBase > 0 /\ Len(hist) = 3

NotFound == {"KeyError", "ValueError: x not in list"}

StateError == {"RuntimeError: remove() requires mode 'a'",
               "ValueError: already closed",
               "ValueError: open writing handle"}

\* C8: remove of a target that is not in the index of a container that can
\* be mutated fails with a not-found error and leaves the entry list, the
\* header offsets, dirStart, the dirty flag and the bytes below dirStart as
\* they were.
C8_NotFound ==
    (/\ last.called
     /\ MutableOpen(last.pre.zf)
     /\ last.member \notin Live(last.pre)) =>
        /\ exc \in NotFound
        /\ zf.filelist = last.pre.zf.filelist
        /\ heap = last.pre.heap
        /\ zf.start_dir = last.pre.zf.start_dir
        /\ zf.didModify = last.pre.zf.didModify
        /\ SubSeq(fs[zf.path], 1, zf.start_dir)
             = SubSeq(last.pre.data, 1, zf.start_dir)

\* C8 witness: the record of an entry that was removed before is given to
\* remove() again, and the loop rewrites the entries at or after its offset.
C8_Witness ==
    /\ last.called /\ MutableOpen(last.pre.zf)
    /\ last.member \in Live(orig) \ Live(last.pre)
    /\ io # <<>>

\* C9: remove fails with a state error, reading and writing no byte and
\* changing nothing, whenever the container is not open for mutation, is
\* closed or has an open writing handle, and in no other case.
C9_StateError ==
    last.called =>
        IF last.pre.zf.mode # "a" \/ ~last.pre.zf.fp \/ last.pre.zf.writing
        THEN /\ exc \in StateError
             /\ io = <<>>
             /\ Bundle = last.pre
        ELSE exc \notin StateError

\* C9 witness: remove() of an entry of the archive was refused because a
\* writing handle was open.
C9_Witness ==
    /\ last.called /\ last.pre.zf.writing /\ last.pre.zf.fp
    /\ last.member \in Live(last.pre)
    /\ exc \in StateError

-----------------------------------------------------------------------------
(* The relocation, step by step *)

\* The entries of w that lie behind the entry id, and those that lie before it
Behind(w, id) ==
    {k \in Live(w) : w.heap[k].header_offset > w.heap[id].header_offset}

Before(w, id) ==
    {k \in Live(w) : w.heap[k].header_offset < w.heap[id].header_offset}

\* The positions of io that hold a read
ReadSteps == {k \in 1..Len(io) : io[k].op = "read"}

\* C15: a successful remove moves exactly the entries behind the target, in
\* ascending order of their offsets before the call; each is read in full at
\* that offset and then written shift bytes lower; what is written ends at or
\* before the offset of every entry still to be read, and each moved entry
\* holds the bytes it held before the call.
C15_AscendingRelocation ==
    Removed =>
        /\ Len(io) = 2 * Cardinality(Behind(last.pre, last.member))
        /\ \A k \in ReadSteps :
              /\ k % 2 = 1
              /\ io[k + 1].op = "write"
              /\ io[k + 1].info = io[k].info
              /\ io[k].info \in Behind(last.pre, last.member)
              /\ io[k].at = last.pre.heap[io[k].info].header_offset
              /\ io[k].n = RawSize(last.pre, io[k].info)
              /\ io[k + 1].at = io[k].at - last.entry_offset
              /\ io[k + 1].n = io[k].n
              /\ \A j \in ReadSteps :
                    j > k =>
                        /\ io[k].at < io[j].at
                        /\ io[k + 1].at + io[k + 1].n <= io[j].at
        /\ \A k \in 1..Len(io) : io[k].op = "write" => (k - 1) \in ReadSteps
        /\ \A id \in Behind(last.pre, last.member) :
              RawBytes(Bundle, id) = RawBytes(last.pre, id)

\* C15 witness: two entries were moved, the directory lists the entries in
\* another order than their offsets, and the first moved entry was written
\* over a part of the place it was read from.
C15_Witness ==
    /\ Removed /\ Len(io) = 4 /\ Shuffled
    /\ io[2].at + io[2].n > io[1].at
    /\ io[2].at < io[1].at

\* C16: a successful remove writes no byte below the target's header offset,
\* leaves the bytes below it and the header offsets of the entries before it
\* as they were, and reads and writes none of those entries; when no entry
\* lies behind the target nothing is read or written, no entry changes and
\* dirStart alone goes down, by the target's raw size, to the target's offset.
C16_BelowUntouched ==
    Removed =>
        LET off == last.pre.heap[last.member].header_offset
        IN  /\ \A k \in 1..Len(io) :
                  /\ io[k].op = "write" => io[k].at >= off
                  /\ io[k].info \notin Before(last.pre, last.member)
            /\ SubSeq(fs[zf.path], 1, off) = SubSeq(last.pre.data, 1, off)
            /\ \A id \in Before(last.pre, last.member) :
                  /\ id \in Live(Bundle)
                  /\ heap[id] = last.pre.heap[id]
            /\ Behind(last.pre, last.member) = {} =>
                  /\ io = <<>>
                  /\ fs[zf.path] = last.pre.data
                  /\ \A id \in DOMAIN heap : heap[id] = last.pre.heap[id]
                  /\ zf.start_dir
                       = last.pre.zf.start_dir - RawSize(last.pre, last.member)
                  /\ zf.start_dir = off

\* C16 witness: the middle entry of three was removed from an archive with
\* a preamble whose directory lists the entries in another order than their
\* offsets: one entry lies before the target and one behind it.
C16_Witness ==
    /\ Removed /\ Shuffled /\ OrigBase > 0
    /\ Cardinality(Before(last.pre, last.member)) = 1
    /\ Cardinality(Behind(last.pre, last.member)) = 1
    /\ Len(io) = 2

\* The archive was closed after removals
ClosedAfterRemoval == ~zf.fp /\ zf.mode = "a" /\ hist # <<>>

\* C17: a successful remove lowers dirStart by the raw size of the target,
\* leaves the file position at the new dirStart and the archive marked as
\* modified; a call that returned with a byte or a header offset changed
\* left it marked; and close then writes, at the new dirStart, the directory
\* of the entry list with the header offsets the entries now have, and the
\* file ends there.
C17_DirtyAtNewStart ==
    /\ Removed =>
          /\ last.entry_offset = RawSize(last.pre, last.member)
          /\ zf.start_dir = last.pre.zf.start_dir - RawSize(last.pre, last.member)
          /\ zf.pos = zf.start_dir
          /\ zf.didModify
    /\ (/\ last.called /\ exc = "none"
        /\ (fs[zf.path] # last.pre.data \/ heap # last.pre.heap)) => zf.didModify
    /\ ClosedAfterRemoval =>
          LET data == fs[zf.path]
          IN  /\ is_zipfile(data)
              /\ data[Len(data)].cd_offset = zf.start_dir
              /\ Len(data) = zf.start_dir + Len(zf.filelist) + 1
              /\ \A i \in 1..Len(zf.filelist) :
                    data[zf.start_dir + i]
                      = [filename |-> heap[zf.filelist[i]].filename,
                         header_offset |-> heap[zf.filelist[i]].header_offset]

\* C17 witness: the first removal on the archive, of an entry with an entry
\* behind it, has returned: the archive was not marked before, and the file
\* position went down with dirStart.
C17_Witness ==
    /\ Removed /\ io # <<>>
    /\ ~last.pre.zf.didModify
    /\ zf.pos < last.pre.zf.pos
    /\ Len(zf.filelist) >= 1

\* C18: whatever calls of remove() were made, and however they ended, the
\* names of the name index are the names of the entries of the entry list,
\* each name stands for the entry of the list that bears it, and the target
\* of a successful remove is in neither.
C18_IndexConsistent ==
    /\ DOMAIN zf.NameToInfo = NamesOf(Bundle)
    /\ \A name \in DOMAIN zf.NameToInfo :
          /\ zf.NameToInfo[name] \in Live(Bundle)
          /\ heap[zf.NameToInfo[name]].filename = name
    /\ Removed =>
          /\ last.member \notin Live(Bundle)
          /\ last.pre.heap[last.member].filename \notin DOMAIN zf.NameToInfo
          /\ Len(zf.filelist) = Len(last.pre.zf.filelist) - 1

\* C18 witness: after two successful removals a third call, for an entry
\* that is no longer in the archive, has failed; one entry is left.
C18_Witness ==
    /\ last.called /\ exc \in NotFound
    /\ Len(hist) = 2 /\ Len(zf.filelist) = 1
    /\ last.member \in Live(orig)

-----------------------------------------------------------------------------
(* The three-entry scenario *)

\* a.txt, JndiLookup.class and b.txt at the header offsets 0, 120 and 190,
\* the central directory at 420, listed in that order
ScenarioSizes == <<120, 70, 230>>

ScenarioInit ==
    /\ Opened(JarPath, Archive(0, ScenarioSizes, NamePool, <<1, 2, 3>>), "a",
              ForeignInfo)
    /\ ScanIdle

SpecScenario == ScenarioInit /\ [][Next]_vars

FilelistNames == [i \in 1..Len(zf.filelist) |-> heap[zf.filelist[i]].filename]

JndiRemovedFirst ==
    /\ zf.mode = "a"
    /\ hist = <<EntryNamed(orig, "JndiLookup.class")>>

\* C6 as stated: removing JndiLookup.class moves b.txt from 190 to 120, sets
\* dirStart to 370 and leaves [a.txt, b.txt].
C6_AsStated ==
    JndiRemovedFirst =>
        /\ orig.heap[EntryNamed(orig, "b.txt")].header_offset = 190
        /\ orig.zf.start_dir = 420
        /\ heap[EntryNamed(orig, "b.txt")].header_offset = 120
        /\ zf.start_dir = 370
        /\ FilelistNames = <<"a.txt", "b.txt">>

\* C6, amended: removing JndiLookup.class moves b.txt from 190 to 120, sets
\* dirStart to 350 (420 less the 70 bytes of the removed entry) and leaves
\* [a.txt, b.txt].
C6_Scenario ==
    JndiRemovedFirst =>
        /\ orig.heap[EntryNamed(orig, "b.txt")].header_offset = 190
        /\ orig.zf.start_dir = 420
        /\ heap[EntryNamed(orig, "b.txt")].header_offset = 120
        /\ zf.start_dir = 350
        /\ FilelistNames = <<"a.txt", "b.txt">>
        /\ RawBytes(Bundle, EntryNamed(orig, "b.txt"))
             = RawBytes(orig, EntryNamed(orig, "b.txt"))

\* C6 witness: JndiLookup.class was just removed from the scenario's archive.
C6_Witness ==
    /\ JndiRemovedFirst /\ Removed
    /\ last.entry_offset = 70
    /\ Len(io) = 2

-----------------------------------------------------------------------------
(* find_log4j *)

\* os.path.isdir(path): the one directory of the model is d
DirPath == <<"d">>

isdir(path) == path = DirPath

\* line 99: the file is passed over
NotJar(path, ignore_case) ==
    \/ ~EndsWithChars(PathChars(path), ".jar")
    \/ (ignore_case /\ EndsWithChars(LowerSeq(PathChars(path)), ".jar"))

\* lines 93-95: one yield of fpath for each keyword the file name contains
RECURSIVE WalkYields(_, _, _)
WalkYields(kws, fpath, file) ==
    IF kws = <<>> THEN <<>>
    ELSE (IF In(Head(kws), file) THEN <<[path |-> fpath]>> ELSE <<>>)
         \o WalkYields(Tail(kws), fpath, file)

\* lines 107-110: one yield of f'{path}:{info.filename}' for each keyword
\* the lowercased entry name contains
RECURSIVE ScanYields(_, _, _)
ScanYields(kws, path, filename) ==
    IF kws = <<>> THEN <<>>
    ELSE (IF InLower(Head(kws), filename)
          THEN <<[path |-> path, entry |-> filename]>> ELSE <<>>)
         \o ScanYields(Tail(kws), path, filename)

\* lines 116-117: some keyword is in the lowercased entry name
Vulnerable(kws, filename) ==
    \E i \in 1..Len(kws) : InLower(kws[i], filename)

\* line 120: input(...).strip().lower() == 'y'
SaysYes(answer) == LowerSeq(Strip(Chars[answer])) = Chars["y"]

\* A variant of line 111 that forgets scan_only
Remediates_AnyMode(is_vulnerable, scan_only) == is_vulnerable

\* line 111: if is_vulnerable and not scan_only
Remediates(is_vulnerable, scan_only) == is_vulnerable /\ ~scan_only

\* A variant of lines 118-122 that starts from really_remove = True and
\* keeps it
really_remove_Always(confirm_before_removing, answer) == TRUE

\* lines 118-122: really_remove
really_remove(confirm_before_removing, answer) ==
    IF confirm_before_removing THEN SaysYes(answer) ELSE TRUE

\* A call of find_log4j on a single file, about to run line 99
NewRun(path, ignore_case, scan_only, confirm_before_removing) ==
    [pc |-> "start", path |-> path, ignore_case |-> ignore_case,
     scan_only |-> scan_only,
     confirm_before_removing |-> confirm_before_removing,
     idx |-> 0, is_vulnerable |-> FALSE]

\* No ZipFile object yet
NoZip ==
    [mode |-> "r", fp |-> FALSE, writing |-> FALSE, filelist |-> <<>>,
     NameToInfo |-> <<>>, start_dir |-> 0, didModify |-> FALSE, pos |-> 0,
     path |-> <<>>]

Injective(f) == \A i, j \in DOMAIN f : f[i] = f[j] => i = j

\* The archives find_log4j meets: up to MaxEntries entries of one cell each,
\* listed in offset order, with distinct names of the pool
ScanArchives ==
    {Archive(0, [i \in 1..Len(names) |-> 1], names, [i \in 1..Len(names) |-> i]) :
        names \in {f \in UNION {[1..n -> {NamePool[k] : k \in 1..(MaxEntries + 1)}] :
                                   n \in 1..MaxEntries} : Injective(f)}}

\* A file that is no archive
Junk == <<[b |-> 7]>>

\* A file that ends with an end record, and has a byte of something else
\* where the end record says the central directory is
Cut == <<[b |-> 7], [cd_offset |-> 0, count |-> 1]>>

ArchiveNames == {"a.jar", "B.JAR"}

Content(file, archive) ==
    IF file \in ArchiveNames THEN archive
    ELSE IF file = "cut.jar" THEN Cut
    ELSE Junk

FilePool == {"a.jar", "B.JAR", "bad.jar", "cut.jar", "n.txt"}

\* What os.walk(d) gives: the files of the directory, in its order
Listings == {<<"a.jar">>, <<"n.txt", "a.jar">>, <<"jndilookup.txt", "a.jar">>,
             <<"bad.jar", "a.jar">>, <<"cut.jar", "a.jar">>, <<"a.jar", "B.JAR">>}

KeywordLists == {keywords, <<"jndi", "lookup">>}

Answers == {"y", "Y ", "n"}

ScanInit ==
    /\ \E archive \in ScanArchives, kws \in KeywordLists,
          ic \in BOOLEAN, so \in BOOLEAN, cf \in BOOLEAN :
         /\ so => cf                 \* line 135: "this doesn't matter"
         /\ \/ \E file \in FilePool :
                 /\ fs = [q \in {<<file>>} |-> Content(file, archive)]
                 /\ cfg = [path |-> <<file>>, ignore_case |-> ic,
                           scan_only |-> so, confirm_before_removing |-> cf,
                           keywords |-> kws, listing |-> <<>>]
                 /\ walk = <<>>
                 /\ run = NewRun(<<file>>, ic, so, cf)
            \/ \E listing \in Listings :
                 /\ fs = [q \in {DirPath \o <<listing[i]>> : i \in 1..Len(listing)}
                            |-> Content(q[2], archive)]
                 /\ cfg = [path |-> DirPath, ignore_case |-> ic,
                           scan_only |-> so, confirm_before_removing |-> cf,
                           keywords |-> kws, listing |-> listing]
                 /\ walk = listing
                 /\ run = [pc |-> "idle"]
    /\ zf = NoZip
    /\ heap = [i \in {0} |-> ForeignInfo]
    /\ orig = [zf |-> NoZip, heap |-> [i \in {0} |-> ForeignInfo], data |-> <<>>]
    /\ hist = <<>>
    /\ exc = "none"
    /\ io = <<>>
    /\ last = NoCall
    /\ out = <<>>
    /\ log = <<>>
    /\ seen = <<>>

RemoverUnchanged == UNCHANGED <<exc, io, orig, hist, last>>

\* lines 90-96: os.walk gives the next file; fpath is yielded for each
\* keyword in the file name, then find_log4j(fpath) is called
WalkStep ==
    /\ isdir(cfg.path)
    /\ walk # <<>>
    /\ run.pc \in {"idle", "done"}
    /\ LET file == Head(walk)
           fpath == cfg.path \o <<file>>
       IN  /\ out' = out \o WalkYields(cfg.keywords, fpath, file)
           /\ run' = NewRun(fpath, FALSE, TRUE, TRUE)
    /\ walk' = Tail(walk)
    /\ UNCHANGED <<fs, zf, heap, log, cfg, seen>>
    /\ RemoverUnchanged

\* lines 99-105: pass over the file, or warn, or open it for reading; the
\* BadZipFile ZipFile() raises is not caught and ends the generators
StartFile ==
    /\ run.pc = "start"
    /\ IF NotJar(run.path, run.ignore_case)
       THEN /\ run' = [run EXCEPT !.pc = "done"]
            /\ UNCHANGED <<zf, heap, log, exc>>
       ELSE IF ~is_zipfile(fs[run.path])
       THEN /\ run' = [run EXCEPT !.pc = "done"]
            /\ log' = Append(log, [ev |-> "warn", path |-> run.path])
            /\ UNCHANGED <<zf, heap, exc>>
       ELSE IF ~DirParses(fs[run.path])
       THEN /\ run' = [run EXCEPT !.pc = "raised"]
            /\ exc' = "BadZipFile"
            /\ UNCHANGED <<zf, heap, log>>
       ELSE \E o \in {ZipFileOpen(run.path, fs[run.path], "r", heap)} :
            /\ zf' = o.zf
            /\ heap' = o.heap
            /\ run' = [run EXCEPT !.pc = "scan", !.idx = 0]
            /\ UNCHANGED <<log, exc>>
    /\ UNCHANGED <<fs, walk, out, cfg, seen, io, orig, hist, last>>

\* lines 106-110: the next entry of infolist()
ScanEntry ==
    /\ run.pc = "scan"
    /\ run.idx < Len(zf.filelist)
    /\ LET info == zf.filelist[run.idx + 1]
           ys == ScanYields(cfg.keywords, run.path, heap[info].filename)
       IN  /\ out' = out \o ys
           /\ run' = [run EXCEPT !.idx = run.idx + 1,
                                 !.is_vulnerable = run.is_vulnerable \/ ys # <<>>]
    /\ UNCHANGED <<fs, zf, heap, walk, log, cfg, seen>>
    /\ RemoverUnchanged

\* lines 105-115: infolist() is exhausted, the archive is closed; if it is
\* vulnerable and scan_only is off it is opened again with mode 'a'
EndScan ==
    /\ run.pc = "scan"
    /\ run.idx >= Len(zf.filelist)
    /\ IF Remediates(run.is_vulnerable, run.scan_only)
       THEN \E o \in {ZipFileOpen(run.path, fs[run.path], "a", heap)} :
            /\ zf' = o.zf
            /\ heap' = o.heap
            /\ orig' = o
            /\ hist' = <<>>
            /\ run' = [run EXCEPT !.pc = "remove", !.idx = 0]
       ELSE /\ zf' = [zf EXCEPT !.fp = FALSE]
            /\ run' = [run EXCEPT !.pc = "done"]
            /\ UNCHANGED <<heap, orig, hist>>
    /\ UNCHANGED <<fs, exc, io, last, walk, out, log, cfg, seen>>

\* lines 115-129: the next entry the iterator over infolist() gives; if it
\* is vulnerable it is removed, after a prompt when confirm_before_removing
RemoveEntry ==
    /\ run.pc = "remove"
    /\ run.idx < Len(zf.filelist)
    /\ LET info == zf.filelist[run.idx + 1]
           entry == [path |-> run.path, entry |-> heap[info].filename]
       IN  IF ~Vulnerable(cfg.keywords, heap[info].filename)
           THEN /\ run' = [run EXCEPT !.idx = run.idx + 1]
                /\ UNCHANGED <<fs, zf, heap, log>>
                /\ RemoverUnchanged
           ELSE \E answer \in IF run.confirm_before_removing THEN Answers ELSE {""} :
                LET asked == IF run.confirm_before_removing
                             THEN <<entry @@ [ev |-> "prompt", answer |-> answer]>>
                             ELSE <<>>
                IN  IF really_remove(run.confirm_before_removing, answer)
                    THEN \E r \in {remove(Bundle, [info |-> info])} :
                         /\ zf' = IF r.exc = "none" THEN r.zf
                                  ELSE ZipFileClose(r).zf
                         /\ heap' = r.heap
                         /\ fs' = [fs EXCEPT ![run.path] =
                                      IF r.exc = "none" THEN r.data
                                      ELSE ZipFileClose(r).data]
                         /\ exc' = r.exc
                         /\ io' = r.io
                         /\ hist' = IF r.exc = "none" THEN Append(hist, info) ELSE hist
                         /\ last' = [called |-> TRUE, member |-> info, pre |-> Bundle,
                                     entry_offset |-> r.entry_offset]
                         /\ log' = log \o asked \o <<entry @@ [ev |-> "remove"]>>
                         /\ run' = IF r.exc = "none"
                                   THEN [run EXCEPT !.idx = run.idx + 1]
                                   ELSE [run EXCEPT !.pc = "raised"]
                         /\ UNCHANGED orig
                    ELSE /\ log' = log \o asked \o <<entry @@ [ev |-> "skip"]>>
                         /\ run' = [run EXCEPT !.idx = run.idx + 1]
                         /\ UNCHANGED <<fs, zf, heap>>
                         /\ RemoverUnchanged
    /\ UNCHANGED <<walk, out, cfg, seen>>

\* line 113, leaving the with block: the iterator is exhausted, the archive
\* is closed
EndRemove ==
    /\ run.pc = "remove"
    /\ run.idx >= Len(zf.filelist)
    /\ \E c \in {ZipFileClose(Bundle)} :
         /\ zf' = c.zf
         /\ fs' = [fs EXCEPT ![run.path] = c.data]
    /\ run' = [run EXCEPT !.pc = "done"]
    /\ UNCHANGED <<heap, walk, out, log, cfg, seen>>
    /\ RemoverUnchanged

\* find_log4j has run to completion
Done == walk = <<>> /\ run.pc = "done"

\* lines 138-139, once more: find_log4j is called again with the same
\* arguments, on the files as the call before left them
CallAgain ==
    /\ Done
    /\ Len(seen) < MaxCalls - 1
    /\ seen' = Append(seen, out)
    /\ out' = <<>>
    /\ IF isdir(cfg.path)
       THEN /\ walk' = cfg.listing
            /\ run' = [pc |-> "idle"]
       ELSE /\ walk' = <<>>
            /\ run' = NewRun(cfg.path, cfg.ignore_case, cfg.scan_only,
                             cfg.confirm_before_removing)
    /\ log' = <<>>
    /\ exc' = "none"
    /\ io' = <<>>
    /\ last' = NoCall
    /\ UNCHANGED <<fs, zf, heap, cfg, orig, hist>>

NextScan ==
    \/ WalkStep
    \/ StartFile
    \/ ScanEntry
    \/ EndScan
    \/ RemoveEntry
    \/ EndRemove
    \/ CallAgain

SpecScan == ScanInit /\ [][NextScan]_vars

\* The names the central directory of the file at path lists
NamesOnDisk(path) ==
    {DirRecords(fs[path])[i].filename : i \in 1..Len(DirRecords(fs[path]))}

\* find_log4j was called on a single file it takes for an archive: the name
\* ends in .jar, ignore_case is off and the file is a ZIP file
OnArchive ==
    /\ ~isdir(cfg.path)
    /\ EndsWithChars(PathChars(cfg.path), ".jar")
    /\ ~cfg.ignore_case
    /\ is_zipfile(fs[cfg.path])

\* How often the finding f was yielded
Count(f) == Cardinality({i \in 1..Len(out) : out[i] = f})

\* C2 as stated: in remediate mode with the never-ask policy, once
\* find_log4j has run to completion on an archive, no entry whose lowercased
\* name contains a signature remains in it.
C2_AllRemoved ==
    (Done /\ OnArchive /\ ~cfg.scan_only /\ ~cfg.confirm_before_removing) =>
        \A name \in NamesOnDisk(cfg.path) : ~Vulnerable(cfg.keywords, name)

\* C3 as stated: in removal mode on a directory, every finding of an archive
\* under it is routed to the remover of that archive: under never-ask it is
\* removed, under always-ask its prompt is issued.
C3_DirectoryRemoval ==
    (Done /\ isdir(cfg.path) /\ ~cfg.scan_only) =>
        \A i \in 1..Len(out) :
            "entry" \in DOMAIN out[i] =>
                \E j \in 1..Len(log) :
                    /\ log[j].ev = (IF cfg.confirm_before_removing
                                    THEN "prompt" ELSE "remove")
                    /\ log[j].path = out[i].path
                    /\ log[j].entry = out[i].entry

\* C10 as stated: scanning an archive yields exactly one finding
\* <archivePath>:<entryName> for each entry whose lowercased name contains at
\* least one signature, also when several signatures match it, and none for
\* any other entry.
C10_OneFindingPerEntry ==
    (Done /\ OnArchive /\ cfg.scan_only) =>
        \A name \in NamesOnDisk(cfg.path) :
            Count([path |-> cfg.path, entry |-> name])
                = (IF Vulnerable(cfg.keywords, name) THEN 1 ELSE 0)

\* C10 with the keywords list of line 6, which holds one signature
C10_DefaultKeywords ==
    cfg.keywords = keywords => C10_OneFindingPerEntry

-----------------------------------------------------------------------------
(* The scan of a directory *)

\* The files that are no ZIP archives, and those that are
PlainFiles == {p \in DOMAIN fs : ~is_zipfile(fs[p])}

ArchiveFiles == {p \in DOMAIN fs : is_zipfile(fs[p]) /\ DirParses(fs[p])}

\* The names of the central directory of the file at path that some keyword
\* of the call matches
VulnerableNames(path) ==
    {name \in NamesOnDisk(path) : Vulnerable(cfg.keywords, name)}

\* The directory holds one plain file and one archive, a .jar file with one
\* matching entry name, and the keywords are those of line 6
OnePlainOneArchive ==
    /\ isdir(cfg.path)
    /\ cfg.keywords = keywords
    /\ Cardinality(PlainFiles) = 1
    /\ Cardinality(ArchiveFiles) = 1
    /\ \A p \in ArchiveFiles :
          /\ EndsWithChars(PathChars(p), ".jar")
          /\ Cardinality(VulnerableNames(p)) = 1

\* C11 as stated: the scan of a directory with one plain file and one archive
\* with a matching entry name yields exactly one finding, the archive path
\* with the entry name, whatever the name of the plain file is.
C11_PlainFileSilent ==
    (Done /\ OnePlainOneArchive) =>
        \A p \in ArchiveFiles : \A name \in VulnerableNames(p) :
            out = <<[path |-> p, entry |-> name]>>

\* C11 for a plain file whose name contains no keyword
C11_CleanFileName ==
    (\A p \in PlainFiles : ~Vulnerable(cfg.keywords, p[Len(p)])) =>
        C11_PlainFileSilent

\* The .jar files that are no recognizable container: the magic-byte probe
\* fails, or the central directory does not parse
Unrecognizable ==
    {p \in DOMAIN fs :
        /\ EndsWithChars(PathChars(p), ".jar")
        /\ (~is_zipfile(fs[p]) \/ ~DirParses(fs[p]))}

Warned(p) == \E j \in 1..Len(log) : log[j] = [ev |-> "warn", path |-> p]

\* C12 as stated: a .jar file that is no recognizable container, at the
\* magic-byte probe or when its directory is parsed at open, raises no error
\* out of the scan of a directory; it is skipped with a warning and the
\* findings of every other file are yielded.
C12_SkipAndContinue ==
    isdir(cfg.path) =>
        /\ ~(run.pc = "raised" /\ exc = "BadZipFile")
        /\ Done =>
              /\ \A p \in Unrecognizable : Warned(p)
              /\ \A p \in ArchiveFiles :
                    EndsWithChars(PathChars(p), ".jar") =>
                        \A name \in VulnerableNames(p) :
                            \E i \in 1..Len(out) :
                                out[i] = [path |-> p, entry |-> name]

\* C12 for the files that fail the magic-byte probe of line 101
C12_MagicProbe ==
    (\A p \in DOMAIN fs : is_zipfile(fs[p]) => DirParses(fs[p])) =>
        C12_SkipAndContinue

-----------------------------------------------------------------------------
(* The confirmation policy *)

Prompts == {j \in 1..Len(log) : log[j].ev = "prompt"}

Removals == {j \in 1..Len(log) : log[j].ev = "remove"}

SameEntry(i, j) == log[i].path = log[j].path /\ log[i].entry = log[j].entry

AlwaysAsk == cfg.confirm_before_removing

\* C13: under always-ask, remove() is called on an entry only after the
\* prompt for that entry was answered y; an entry whose prompt was answered
\* otherwise is not removed and stays in the entry list; when every prompt of
\* a run was declined the archive has the entry list, dirStart and bytes it
\* was opened with; under never-ask no prompt is issued.
C13_ConfirmedOnly ==
    /\ AlwaysAsk =>
          /\ \A j \in Removals :
                \E i \in Prompts :
                    i < j /\ SameEntry(i, j) /\ SaysYes(log[i].answer)
          /\ (last.called /\ run.pc \in {"remove", "raised", "done"}) =>
                \E i \in Prompts :
                    /\ log[i].path = last.pre.zf.path
                    /\ log[i].entry = last.pre.heap[last.member].filename
                    /\ SaysYes(log[i].answer)
          /\ \A i \in Prompts :
                ~SaysYes(log[i].answer) =>
                    /\ \A j \in Removals : ~SameEntry(i, j)
                    /\ log[i].entry \in NamesOf(Bundle)
                    /\ Done => log[i].entry \in NamesOnDisk(log[i].path)
          /\ (/\ Done
              /\ Prompts # {}
              /\ \A i \in Prompts : ~SaysYes(log[i].answer)) =>
                /\ fs[cfg.path] = orig.data
                /\ zf.filelist = orig.zf.filelist
                /\ zf.start_dir = orig.zf.start_dir
                /\ heap = orig.heap
    /\ ~AlwaysAsk => Prompts = {}

\* C13 witness: a run under always-ask has ended in which the prompt of one
\* entry was answered "Y " and that entry was removed, and the prompt of
\* another entry was answered n.
C13_Witness ==
    /\ AlwaysAsk /\ Done
    /\ \E i, k \in Prompts, j \in Removals :
          /\ log[i].answer = "Y " /\ SameEntry(i, j) /\ i < j
          /\ log[k].answer = "n"
          /\ log[i].entry \notin NamesOnDisk(cfg.path)
          /\ log[k].entry \in NamesOnDisk(cfg.path)

-----------------------------------------------------------------------------
(* Report-only mode *)

FindingSet(findings) == {findings[i] : i \in 1..Len(findings)}

\* C14: with scan_only no step of a scan calls remove(), opens an archive
\* other than for reading or changes a byte of a file, and a second scan of
\* the same path yields the same set of findings as the scans before it.
C14_ReportOnly ==
    [][cfg.scan_only =>
          /\ fs' = fs
          /\ ~last'.called
          /\ Removals' = {} /\ Prompts' = {}
          /\ zf'.fp => zf'.mode = "r"
          /\ ~zf'.didModify
          /\ Done' =>
                \A k \in 1..Len(seen') :
                    FindingSet(out') = FindingSet(seen'[k])]_vars

\* C14 witness: the second report-only scan of an archive with a matching
\* entry has ended.
C14_Witness ==
    /\ cfg.scan_only /\ Done /\ Len(seen) = 1
    /\ ~isdir(cfg.path)
    /\ out # <<>>

-----------------------------------------------------------------------------
(* ignore_case *)

\* lines 106-110: the findings of the directory records recs, in their order
RECURSIVE YieldsOf(_, _, _)
YieldsOf(kws, path, recs) ==
    IF recs = <<>> THEN <<>>
    ELSE ScanYields(kws, path, Head(recs).filename)
         \o YieldsOf(kws, path, Tail(recs))

\* lines 99-110: what find_log4j yields for the file at path
FindingsOf(path, kws, ignore_case) ==
    IF NotJar(path, ignore_case) THEN <<>>
    ELSE IF ~is_zipfile(fs[path]) THEN <<>>
    ELSE IF ~DirParses(fs[path]) THEN <<>>
    ELSE YieldsOf(kws, path, DirRecords(fs[path]))

\* The first call of find_log4j on a single file has yielded what FindingsOf
\* gives for its arguments
FindingsAgree ==
    (Done /\ ~isdir(cfg.path) /\ seen = <<>> /\ cfg.scan_only) =>
        out = FindingsOf(cfg.path, cfg.keywords, cfg.ignore_case)

\* The name of the file ends in .jar in some letter case
JarInAnyCase(path) == EndsWithChars(LowerSeq(PathChars(path)), ".jar")

\* C19 as stated: what find_log4j yields for a file with ignore_case off it
\* also yields with ignore_case on, and with ignore_case on a ZIP file whose
\* name ends in .jar in any letter case is opened and scanned.
C19_IgnoreCaseScansMore ==
    (Done /\ ~isdir(cfg.path) /\ cfg.ignore_case) =>
        /\ FindingSet(FindingsOf(cfg.path, cfg.keywords, FALSE))
             \subseteq FindingSet(out)
        /\ (/\ JarInAnyCase(cfg.path)
            /\ is_zipfile(fs[cfg.path])
            /\ DirParses(fs[cfg.path])) =>
              /\ zf.path = cfg.path
              /\ \A name \in VulnerableNames(cfg.path) :
                    [path |-> cfg.path, entry |-> name] \in FindingSet(out)

\* C19 for the files whose name does not end in .jar in any letter case
C19_OtherFiles ==
    ~JarInAnyCase(cfg.path) => C19_IgnoreCaseScansMore

====
